---------------------------- MODULE Spec2Model ----------------------------
(***************************************************************************)
(* podoc: the markup AST (podoc/ast/_ast.py), its pandoc-compatible JSON   *)
(* codec and the comparison helper `ae`.                                   *)
(*                                                                         *)
(* Python objects have identity and are shared by reference, so Block and  *)
(* Inline instances live in a heap (a sequence of node records, a node's   *)
(* id being its position) and lists hold references.                       *)
(***************************************************************************)
EXTENDS Integers, Sequences, FiniteSets, TLC

(***************************************************************************)
(* Bounds of the exploration.                                              *)
(***************************************************************************)
\* Block / Inline instances alive at once.
MaxNodes == 7
\* Constructor and mutator calls in one trace, before the document is
\* encoded and decoded.
MaxOps == 2
\* Constructor calls that built the instances a trace starts from.
MaxBuilt == 2
\* Elements of a list literal passed to a constructor.
MaxArgs == 2
\* Top-level blocks of a JSON document handed to from_dict.
MaxJson == 1
\* Elements of a list handed to ae.
MaxAeLen == 2
\* The functions registered for one stage of the pipeline.
MaxStage == 2
\* Top-level blocks of a document given to the notebook writer.
MaxBlocks == 4
\* Cells of a notebook given to the reader before its first code cell.
MaxLead == 4
\* Outputs of a code cell.
MaxOutputs == 2

(***************************************************************************)
(* Program constants.                                                      *)
(***************************************************************************)
PANDOC_BLOCK_NAMES ==
    {"Plain", "Para", "CodeBlock", "RawBlock", "BlockQuote", "OrderedList",
     "BulletList", "DefinitionList", "Header", "HorizontalRule", "Table",
     "Div"}

PANDOC_INLINE_NAMES ==
    {"Str", "Emph", "Strong", "Strikeout", "Code", "Space", "LineBreak",
     "Math", "Link", "Image"}

(***************************************************************************)
(* Python values that are passed to the node operations: a reference to a  *)
(* Block or Inline instance, a string, an integer, a list of values.       *)
(* Every value is a record of the same shape so that any two compare.      *)
(***************************************************************************)
PyRef(i) == [k |-> "ref", id |-> i, s |-> "", items |-> <<>>]
PyStr(s) == [k |-> "str", id |-> 0, s |-> s, items |-> <<>>]
PyInt(n) == [k |-> "int", id |-> n, s |-> "", items |-> <<>>]
PyList(xs) == [k |-> "list", id |-> 0, s |-> "", items |-> xs]
PyNone == [k |-> "none", id |-> 0, s |-> "", items |-> <<>>]

\* A keyword argument that the caller did not give.
Absent == "<absent>"

\* kwargs.pop(key, default)
KwPop(given, default) == IF given = Absent THEN default ELSE given

(***************************************************************************)
(* JSON values (and plain Python data in general): strings, lists, dicts.  *)
(* A dict is its set of <<key, value>> items, keys being unique.           *)
(***************************************************************************)
JStr(s) == [k |-> "str", s |-> s, l |-> <<>>, d |-> {}]
JList(xs) == [k |-> "list", s |-> "", l |-> xs, d |-> {}]
JDict(items) == [k |-> "dict", s |-> "", l |-> <<>>, d |-> items]
\* The outcome of a call that raised `e` instead of returning a value.
JErr(e) == [k |-> "err", s |-> e, l |-> <<>>, d |-> {}]
JNone == [k |-> "none", s |-> "", l |-> <<>>, d |-> {}]

DictKeys(j) == {p[1] : p \in j.d}
DictHas(j, key) == key \in DictKeys(j)
DictGet(j, key) == (CHOOSE p \in j.d : p[1] = key)[2]

\* isinstance(v, classes) for the two node classes
IsInstance(h, v, classes) ==
    /\ v.k = "ref"
    /\ v.id \in 1..Len(h)
    /\ h[v.id].cls \in classes


(***************************************************************************)
(* State.                                                                  *)
(*   heap     the Block and Inline instances created so far                *)
(*   ast      the AST instance under construction (AST(...), add_block)    *)
(*   json     the value returned by the last successful AST.to_dict        *)
(*   decoded  the AST returned by the last AST.from_dict                   *)
(*   orig, cp a Block and the copy taken of it                             *)
(*   cmp      the two arguments of `ae` and its outcome                    *)
(*   last     the last call: its name, arguments and outcome               *)
(*   nops     the number of calls made                                     *)
(***************************************************************************)
VARIABLES heap, ast, json, decoded, orig, cp, cmp, last, nops

\* podoc      the Podoc instance: its preprocessors, reader, filters, writer
\*            and postprocessors
\* converted  the last convert_contents call: its argument and its result
VARIABLES podoc, converted

pipeVars == <<podoc, converted>>

\* nbdoc      the top-level blocks of the document given to the notebook writer
\* nbres      the resources given with it
\* wrapped    what wrap_code_cells returned for nbdoc
\* notebook   the notebook written, or the one given to the reader
\* readout    what the notebook reader returned: document and resources
VARIABLES nbdoc, nbres, wrapped, notebook, readout

nbVars == <<nbdoc, nbres, wrapped, notebook, readout>>

vars == <<heap, ast, json, decoded, orig, cp, cmp, last, nops, pipeVars,
          nbVars>>

PyAbsent == [k |-> "absent", id |-> 0, s |-> "", items |-> <<>>]
JAbsent == [k |-> "absent", s |-> "", l |-> <<>>, d |-> {}]

\* kwargs.pop(key, default) for a value argument
KwPopV(given, default) == IF given.k = "absent" THEN default ELSE given

Node(cls, name, meta, children) ==
    [cls |-> cls, name |-> name, meta |-> meta, children |-> children]

NoAST == [exists |-> FALSE, blocks |-> PyNone]
MkAST(blocks) == [exists |-> TRUE, blocks |-> blocks]

\* The record of a call: its outcome, the kind given to a constructor, the
\* instance a method was called on, the id of the instance a constructor
\* returned (0: none), the JSON argument of from_dict.
Call(op, err, name, target, made, d) ==
    [op |-> op, ok |-> (err = ""), err |-> err, name |-> name,
     target |-> target, made |-> made, d |-> d]

NoCall == Call("none", "", "", 0, 0, JNone)

\* self.reader is None
None == "None"

\* Podoc.__init__: the lists are empty, no reader and no writer is set.
NewPodoc ==
    [preprocessors |-> <<>>, reader |-> None, filters |-> <<>>,
     writer |-> None, postprocessors |-> <<>>]

NotConverted == [done |-> FALSE, input |-> <<>>, output |-> <<>>]

\* No Podoc instance is in use.
NoPipeline == podoc = NewPodoc /\ converted = NotConverted

\* A value of the notebook converter that does not exist (yet).
NbNone == [ok |-> FALSE, err |-> "", v |-> <<>>]
NotRead == [done |-> FALSE, err |-> "", doc |-> <<>>, resources |-> {}]

\* The notebook converter is not in use.
NoNotebook ==
    /\ nbdoc = <<>>
    /\ nbres = {}
    /\ wrapped = NbNone
    /\ notebook = NbNone
    /\ readout = NotRead

(***************************************************************************)
(* Block                                                                   *)
(***************************************************************************)
\* Block._check_children: a list whose elements are Block or Inline.
BlockCheckChildren(h, children) ==
    /\ children.k = "list"
    /\ \A n \in 1..Len(children.items) :
          IsInstance(h, children.items[n], {"Block", "Inline"})

BlockInitOk_NoNameCheck(h, name, children) ==
    BlockCheckChildren(h, KwPopV(children, PyList(<<>>)))

\* Block.__init__ returns (both asserts pass).
BlockInitOk(h, name, children) ==
    /\ KwPop(name, "Block") \in PANDOC_BLOCK_NAMES
    /\ BlockCheckChildren(h, KwPopV(children, PyList(<<>>)))

\* The instance Block.__init__ builds.
BlockInit(name, meta, children) ==
    Node("Block", KwPop(name, "Block"), KwPopV(meta, JDict({})),
         KwPopV(children, PyList(<<>>)))

\* dict.update(**kwargs)
DictUpdate(j, items) ==
    JDict({p \in j.d : p[1] \notin {q[1] : q \in items}} \cup items)

(***************************************************************************)
(* Inline                                                                  *)
(***************************************************************************)
\* Inline._check_children: a list of Inline, or a string.
InlineCheckChildren(h, children) ==
    /\ children.k \in {"list", "str"}
    /\ children.k = "list" =>
          \A n \in 1..Len(children.items) :
              IsInstance(h, children.items[n], {"Inline"})

InlineInitOk(h, name, children) ==
    /\ KwPop(name, "Inline") \in PANDOC_INLINE_NAMES
    /\ InlineCheckChildren(h, KwPopV(children, PyList(<<>>)))

InlineInit(name, children) ==
    Node("Inline", KwPop(name, "Inline"), JNone,
         KwPopV(children, PyList(<<>>)))

\* Inline.set_string: the argument is stored as it is.
SetString(node, string) == [node EXCEPT !.children = string]

\* list.append
ListAppend(lst, v) == PyList(Append(lst.items, v))

\* The asserts add_child makes before it appends: Block.add_child asserts
\* the child's class; Inline.add_child asserts that its own children are a
\* list and that the child is an Inline.
AddChildAsserts(h, i, child) ==
    IF h[i].cls = "Block"
    THEN IsInstance(h, child, {"Block", "Inline"})
    ELSE /\ h[i].children.k = "list"
         /\ IsInstance(h, child, {"Inline"})

\* Inline.add_child checks the children again after the append (the append
\* stays when this check raises); Block.add_child does not.
AddChildRecheck(h, i) ==
    h[i].cls = "Inline" => InlineCheckChildren(h, h[i].children)

AddChild_Assign(node, child) ==
    [node EXCEPT !.children = PyList(<<child>>)]

\* self.children.append(child)
AddChild(node, child) ==
    [node EXCEPT !.children = ListAppend(node.children, child)]

(***************************************************************************)
(* AST                                                                     *)
(***************************************************************************)
\* AST.__init__: blocks must be a list; its elements are not looked at.
ASTInitOk(blocks) == KwPopV(blocks, PyList(<<>>)).k = "list"

ASTInit(blocks) == MkAST(KwPopV(blocks, PyList(<<>>)))

\* AST.add_block: asserts a Block.
AddBlockOk(h, block) == IsInstance(h, block, {"Block"})

AddBlock(a, block) == MkAST(ListAppend(a.blocks, block))

(***************************************************************************)
(* The codec: to_dict                                                      *)
(***************************************************************************)
\* The first element of a sequence of outcomes that is an error.
FirstErr(js) == js[CHOOSE n \in 1..Len(js) :
                     /\ js[n].k = "err"
                     /\ \A m \in 1..(n - 1) : js[m].k # "err"]

HasErr(js) == \E n \in 1..Len(js) : js[n].k = "err"

\* v.to_dict() for an element v of a children list: Block.to_dict or
\* Inline.to_dict by the class of the instance. `fuel` is the call depth
\* left: a cyclic structure recurses until Python raises RecursionError.
RECURSIVE NodeToDict(_, _, _)
NodeToDict(h, v, fuel) ==
    IF v.k # "ref" THEN JErr("AttributeError")
    ELSE IF fuel = 0 THEN JErr("RecursionError")
    ELSE LET n == h[v.id]
             kids == [m \in 1..Len(n.children.items) |->
                        NodeToDict(h, n.children.items[m], fuel - 1)]
         IN  IF n.cls = "Block"
             THEN IF ~BlockCheckChildren(h, n.children)
                  THEN JErr("AssertionError")
                  ELSE IF HasErr(kids) THEN FirstErr(kids)
                  ELSE JDict({<<"t", JStr(n.name)>>, <<"m", n.meta>>,
                              <<"c", JList(kids)>>})
             ELSE IF ~InlineCheckChildren(h, n.children)
                  THEN JErr("AssertionError")
                  ELSE IF n.children.k = "list"
                  THEN IF HasErr(kids) THEN FirstErr(kids)
                       ELSE JDict({<<"t", JStr(n.name)>>,
                                   <<"c", JList(kids)>>})
                  ELSE JDict({<<"t", JStr(n.name)>>,
                              <<"c", JStr(n.children.s)>>})

ASTToDict_Reversed(h, a) ==
    LET k == Len(a.blocks.items)
        bs == [m \in 1..k |->
                 NodeToDict(h, a.blocks.items[k + 1 - m], Len(h))]
    IN  IF HasErr(bs) THEN FirstErr(bs)
        ELSE JList(<<JDict({<<"unMeta", JDict({})>>}), JList(bs)>>)

\* AST.to_dict
ASTToDict(h, a) ==
    LET bs == [m \in 1..Len(a.blocks.items) |->
                 NodeToDict(h, a.blocks.items[m], Len(h))]
    IN  IF HasErr(bs) THEN FirstErr(bs)
        ELSE JList(<<JDict({<<"unMeta", JDict({})>>}), JList(bs)>>)

(***************************************************************************)
(* The codec: from_dict                                                    *)
(***************************************************************************)
\* d[key] for a string key
Subscript(d, key) ==
    IF d.k = "dict"
    THEN IF DictHas(d, key) THEN DictGet(d, key) ELSE JErr("KeyError")
    ELSE JErr("TypeError")

DictGetOr_Default(d, key, default) == default

\* d.get(key, default)
DictGetOr(d, key, default) ==
    IF DictHas(d, key) THEN DictGet(d, key) ELSE default

\* name in NAMES, for a JSON value
NameIn(name, names) == name.k = "str" /\ name.s \in names

RECURSIVE SetToSeq(_)
SetToSeq(S) ==
    IF S = {} THEN <<>>
    ELSE LET x == CHOOSE y \in S : TRUE IN <<x>> \o SetToSeq(S \ {x})

\* The elements `for _ in d` visits: those of a list, the characters of a
\* string (the model's strings have at most one), the keys of a dict.
Iterate(d) ==
    IF d.k = "list" THEN d.l
    ELSE IF d.k = "str" THEN (IF d.s = "" THEN <<>> ELSE <<JStr(d.s)>>)
    ELSE SetToSeq({JStr(key) : key \in DictKeys(d)})

\* len(d)
JLen(d) ==
    IF d.k = "list" THEN Len(d.l)
    ELSE IF d.k = "str" THEN (IF d.s = "" THEN 0 ELSE 1)
    ELSE Cardinality(d.d)

\* What a from_dict call returns: the heap with the new instances, the
\* values built (one for a single node), or the error raised.
Built(h, vs) == [h |-> h, vs |-> vs, err |-> ""]
Raised(h, e) == [h |-> h, vs |-> <<>>, err |-> e]

RECURSIVE InlineFromDict(_, _)
RECURSIVE InlineFromDictEach(_, _)
\* [Inline.from_dict(_) for _ in ds]
InlineFromDictEach(h, ds) ==
    IF ds = <<>> THEN Built(h, <<>>)
    ELSE LET r == InlineFromDict(h, Head(ds)) IN
         IF r.err # "" THEN r
         ELSE LET rest == InlineFromDictEach(r.h, Tail(ds)) IN
              IF rest.err # "" THEN rest
              ELSE Built(rest.h, r.vs \o rest.vs)

\* Inline.from_dict
InlineFromDict(h, d) ==
    LET name == Subscript(d, "t")
        children == Subscript(d, "c")
    IN  IF name.k = "err" THEN Raised(h, name.s)
        ELSE IF children.k = "err" THEN Raised(h, children.s)
        ELSE LET r == IF children.k = "list"
                      THEN InlineFromDictEach(h, children.l)
                      ELSE Built(h, <<>>)
                 kids == IF children.k = "list" THEN PyList(r.vs)
                         ELSE IF children.k = "str" THEN PyStr(children.s)
                         ELSE PyInt(0)
             IN  IF r.err # "" THEN r
                 ELSE IF ~InlineCheckChildren(r.h, kids)
                 THEN Raised(h, "AssertionError")
                 ELSE IF ~NameIn(name, PANDOC_INLINE_NAMES)
                 THEN Raised(h, "AssertionError")
                 ELSE Built(Append(r.h, InlineInit(name.s, kids)),
                            <<PyRef(Len(r.h) + 1)>>)

\* assert name in PANDOC_BLOCK_NAMES
BlockNameOk(name) == NameIn(name, PANDOC_BLOCK_NAMES)

RECURSIVE BlockFromDict(_, _)
RECURSIVE BlockFromDictEach(_, _)
\* [Block.from_dict(_) for _ in ds]
BlockFromDictEach(h, ds) ==
    IF ds = <<>> THEN Built(h, <<>>)
    ELSE LET r == BlockFromDict(h, Head(ds)) IN
         IF r.err # "" THEN r
         ELSE LET rest == BlockFromDictEach(r.h, Tail(ds)) IN
              IF rest.err # "" THEN rest
              ELSE Built(rest.h, r.vs \o rest.vs)

\* Block.from_dict
BlockFromDict(h, d) ==
    LET name == Subscript(d, "t") IN
    IF name.k = "err" THEN Raised(h, name.s)
    ELSE IF NameIn(name, PANDOC_INLINE_NAMES) THEN InlineFromDict(h, d)
    ELSE IF ~BlockNameOk(name) THEN Raised(h, "AssertionError")
    ELSE LET meta == DictGetOr(d, "m", JDict({}))
             children == Subscript(d, "c")
         IN  IF children.k = "err" THEN Raised(h, children.s)
             ELSE LET r == BlockFromDictEach(h, Iterate(children)) IN
                  IF r.err # "" THEN r
                  ELSE IF ~BlockInitOk(r.h, name.s, PyList(r.vs))
                  THEN Raised(h, "AssertionError")
                  ELSE Built(Append(r.h,
                                    BlockInit(name.s, meta, PyList(r.vs))),
                             <<PyRef(Len(r.h) + 1)>>)

FromDictLenOk_AtLeastTwo(d) == JLen(d) >= 2

\* assert len(d) == 2
FromDictLenOk(d) == JLen(d) = 2

\* AST.from_dict: the heap with the new instances, the blocks of the AST
\* returned, or the error raised.
ASTFromDict(h, d) ==
    IF ~FromDictLenOk(d) THEN Raised(h, "AssertionError")
    ELSE IF d.k # "list" THEN Raised(h, "KeyError")
    ELSE LET r == BlockFromDictEach(h, Iterate(d.l[2])) IN
         IF r.err # "" THEN Raised(h, r.err) ELSE r

(***************************************************************************)
(* Equality and comparison                                                 *)
(***************************************************************************)
JInt(n) == [k |-> "int", s |-> ToString(n), l |-> <<>>, d |-> {}]

\* The plain data a Python value compares as under ==: Block and Inline
\* are dicts (Bunch), so == compares their items: name, meta (Block only)
\* and children, element by element and in order.
RECURSIVE PyData(_, _, _)
PyData(h, v, fuel) ==
    IF v.k = "str" THEN JStr(v.s)
    ELSE IF v.k = "int" THEN JInt(v.id)
    ELSE IF v.k = "list"
    THEN JList([m \in 1..Len(v.items) |-> PyData(h, v.items[m], fuel)])
    ELSE IF v.k # "ref" THEN JNone
    ELSE IF fuel = 0 THEN JErr("RecursionError")
    ELSE LET n == h[v.id]
             kids == PyData(h, n.children, fuel - 1)
         IN  IF n.cls = "Block"
             THEN JDict({<<"name", JStr(n.name)>>, <<"meta", n.meta>>,
                         <<"children", kids>>})
             ELSE JDict({<<"name", JStr(n.name)>>, <<"children", kids>>})

\* An AST is a dict too, with the one item `blocks`.
ASTData(h, a) == JDict({<<"blocks", PyData(h, a.blocks, Len(h))>>})

RemoveJsonMeta_NoLists(d) ==
    IF d.k = "dict"
    THEN JDict({<<p[1], p[2]>> : p \in {q \in d.d : q[1] # "m"}})
    ELSE d

\* _remove_json_meta
RECURSIVE RemoveJsonMeta(_)
RemoveJsonMeta(d) ==
    IF d.k = "dict"
    THEN JDict({<<p[1], RemoveJsonMeta(p[2])>> :
                  p \in {q \in d.d : q[1] # "m"}})
    ELSE IF d.k = "list"
    THEN JList([n \in 1..Len(d.l) |-> RemoveJsonMeta(d.l[n])])
    ELSE d

\* ae(a, b): the assertion passes.
Ae(a, b) ==
    IF a.k \in {"list", "dict"}
    THEN RemoveJsonMeta(a) = RemoveJsonMeta(b)
    ELSE a = b

(***************************************************************************)
(* Inputs of the calls.                                                    *)
(***************************************************************************)
SeqsUpTo(S, n) == UNION {[1..m -> S] : m \in 0..n}

\* The kinds given to a constructor: a Block kind, an Inline kind, a kind
\* of neither enumeration, and no kind at all.
KindInputs == {"Para", "Str", "Unknown", Absent}

Refs(h) == {PyRef(i) : i \in 1..Len(h)}

\* What a caller may hand over as a child.
ElemInputs(h) == Refs(h) \cup {PyStr("a"), PyInt(7)}

\* What a caller may hand over as `children` or `blocks`.
ChildrenInputs(h) ==
    {PyList(xs) : xs \in SeqsUpTo(Refs(h) \cup {PyStr("a")}, MaxArgs)}
        \cup {PyAbsent, PyStr("a"), PyStr(""), PyInt(7)}

JNodeD(t, c) == JDict({<<"t", JStr(t)>>, <<"c", c>>})
JNodeM(t, m, c) == JDict({<<"t", JStr(t)>>, <<"m", m>>, <<"c", c>>})
JLang == JDict({<<"lang", JStr("python")>>})
JUnMeta == JDict({<<"unMeta", JDict({})>>})

JNodes ==
    {JNodeD("Str", JStr("a")),
     JNodeD("Para", JList(<<JNodeD("Emph", JList(<<>>))>>)),
     JNodeM("Para", JLang, JList(<<>>)),
     JNodeD("Unknown", JList(<<JNodeD("Para", JList(<<>>))>>)),
     JNodeD("Para", JList(<<JNodeD("Unknown", JList(<<>>))>>)),
     JDict({<<"t", JStr("Space")>>})}

\* The JSON values handed to AST.from_dict: well-formed documents, and
\* outer values of zero, one and three elements.
JsonInputs ==
    {JList(<<JUnMeta, JList(xs)>>) : xs \in SeqsUpTo(JNodes, MaxJson)}
      \cup {JList(<<>>), JList(<<JUnMeta>>),
            JList(<<JUnMeta, JList(<<>>), JList(<<>>)>>),
            JDict({<<"meta", JDict({})>>, <<"blocks", JList(<<>>)>>})}

(***************************************************************************)
(* The calls.  A call that raises leaves the objects as the code left them *)
(* when it raised, and records the error.                                  *)
(***************************************************************************)
\* The instances one more successful constructor call adds to heap h.
Constructed(h) ==
    {BlockInit(p[1], JAbsent, p[2]) :
        p \in {q \in KindInputs \X ChildrenInputs(h) :
                 BlockInitOk(h, q[1], q[2])}}
      \cup {InlineInit(p[1], p[2]) :
              p \in {q \in KindInputs \X ChildrenInputs(h) :
                       InlineInitOk(h, q[1], q[2])}}

\* The heaps that up to n successful constructor calls leave.
RECURSIVE HeapsBuilt(_)
HeapsBuilt(n) ==
    IF n = 0 THEN {<<>>}
    ELSE LET P == HeapsBuilt(n - 1) IN
         P \cup UNION {{Append(h, x) : x \in Constructed(h)} :
                          h \in {g \in P : Len(g) = n - 1}}

\* A script starts from instances that constructor calls have built.
Init ==
    /\ heap \in HeapsBuilt(MaxBuilt)
    /\ ast = NoAST
    /\ json = JNone
    /\ decoded = NoAST
    /\ orig = PyNone
    /\ cp = PyNone
    /\ cmp = [a |-> JNone, b |-> JNone, res |-> "none"]
    /\ last = NoCall
    /\ nops = 0
    /\ NoPipeline
    /\ NoNotebook

CodecCalls == {"to_dict", "from_dict"}

\* The script may go on building: no call has raised (a call that raises
\* ends the script), fewer than MaxOps building calls were made, and the
\* document was not yet handed to the codec (a document is read-only once it
\* is encoded).
Building ==
    /\ last.ok
    /\ nops < MaxOps
    /\ last.op \notin CodecCalls

\* Block(name=..., children=...)
NewBlock ==
    \E name \in KindInputs, children \in ChildrenInputs(heap) :
        /\ Building
        /\ nops' = nops + 1
        /\ IF BlockInitOk(heap, name, children)
           THEN /\ Len(heap) < MaxNodes
                /\ heap' = Append(heap, BlockInit(name, JAbsent, children))
                /\ last' = Call("Block", "", name, 0, Len(heap) + 1, JNone)
           ELSE /\ heap' = heap
                /\ last' = Call("Block", "AssertionError", name, 0, 0, JNone)
        /\ UNCHANGED <<ast, json, decoded, orig, cp, cmp, pipeVars, nbVars>>

\* Inline(name=..., children=...)
NewInline ==
    \E name \in KindInputs, children \in ChildrenInputs(heap) :
        /\ Building
        /\ nops' = nops + 1
        /\ IF InlineInitOk(heap, name, children)
           THEN /\ Len(heap) < MaxNodes
                /\ heap' = Append(heap, InlineInit(name, children))
                /\ last' = Call("Inline", "", name, 0, Len(heap) + 1, JNone)
           ELSE /\ heap' = heap
                /\ last' = Call("Inline", "AssertionError", name, 0, 0, JNone)
        /\ UNCHANGED <<ast, json, decoded, orig, cp, cmp, pipeVars, nbVars>>

\* node.add_child(child): Block.add_child or Inline.add_child
AddChildCall ==
    \E i \in 1..Len(heap), child \in ElemInputs(heap) :
        /\ Building
        /\ nops' = nops + 1
        /\ IF AddChildAsserts(heap, i, child)
           THEN /\ heap' = [heap EXCEPT ![i] = AddChild(@, child)]
                /\ last' = Call("add_child",
                                IF AddChildRecheck(heap', i) THEN ""
                                ELSE "AssertionError",
                                "", i, 0, JNone)
           ELSE /\ heap' = heap
                /\ last' = Call("add_child", "AssertionError", "", i, 0, JNone)
        /\ UNCHANGED <<ast, json, decoded, orig, cp, cmp, pipeVars, nbVars>>

\* node.set_string(string): only Inline has the method.
SetStringCall ==
    \E i \in 1..Len(heap),
       string \in {PyStr("a"), PyStr(""), PyInt(7)}
                     \cup {PyList(<<r>>) : r \in Refs(heap)} :
        /\ Building
        /\ nops' = nops + 1
        /\ IF heap[i].cls = "Inline"
           THEN /\ heap' = [heap EXCEPT ![i] = SetString(@, string)]
                /\ last' = Call("set_string", "", "", i, 0, JNone)
           ELSE /\ heap' = heap
                /\ last' = Call("set_string", "AttributeError", "", i, 0, JNone)
        /\ UNCHANGED <<ast, json, decoded, orig, cp, cmp, pipeVars, nbVars>>

\* block.add_metadata(lang='python'): only Block has the method.
AddMetadataCall ==
    \E i \in 1..Len(heap) :
        /\ Building
        /\ nops' = nops + 1
        /\ IF heap[i].cls = "Block" /\ heap[i].meta.k = "dict"
           THEN /\ heap' = [heap EXCEPT
                              ![i].meta = DictUpdate(@, JLang.d)]
                /\ last' = Call("add_metadata", "", "", i, 0, JNone)
           ELSE /\ heap' = heap
                /\ last' = Call("add_metadata", "AttributeError", "", i, 0, JNone)
        /\ UNCHANGED <<ast, json, decoded, orig, cp, cmp, pipeVars, nbVars>>

\* ast = AST(blocks=...)
NewAST ==
    \E blocks \in ChildrenInputs(heap) :
        /\ Building
        /\ nops' = nops + 1
        /\ IF ASTInitOk(blocks)
           THEN /\ ast' = ASTInit(blocks)
                /\ last' = Call("AST", "", "", 0, 0, JNone)
           ELSE /\ ast' = ast
                /\ last' = Call("AST", "AssertionError", "", 0, 0, JNone)
        /\ UNCHANGED <<heap, json, decoded, orig, cp, cmp, pipeVars, nbVars>>

\* ast.add_block(block)
AddBlockCall ==
    \E block \in ElemInputs(heap) :
        /\ ast.exists
        /\ Building
        /\ nops' = nops + 1
        /\ IF AddBlockOk(heap, block)
           THEN /\ ast' = AddBlock(ast, block)
                /\ last' = Call("add_block", "", "", 0, 0, JNone)
           ELSE /\ ast' = ast
                /\ last' = Call("add_block", "AssertionError", "", 0, 0, JNone)
        /\ UNCHANGED <<heap, json, decoded, orig, cp, cmp, pipeVars, nbVars>>

\* json = ast.to_dict()
ToDictCall ==
    /\ ast.exists
    /\ last.ok
    /\ last.op \notin CodecCalls
    /\ LET r == ASTToDict(heap, ast) IN
       IF r.k = "err"
       THEN /\ json' = json
            /\ last' = Call("to_dict", r.s, "", 0, 0, JNone)
       ELSE /\ json' = r
            /\ last' = Call("to_dict", "", "", 0, 0, JNone)
    /\ UNCHANGED <<heap, ast, decoded, orig, cp, cmp, nops, pipeVars, nbVars>>

\* decoded = AST.from_dict(d), for the value to_dict returned or another one
FromDictCall ==
    \E d \in JsonInputs \cup (IF json.k = "none" THEN {} ELSE {json}) :
        /\ last.ok
        /\ last.op # "from_dict"
        /\ LET r == ASTFromDict(heap, d) IN
           IF r.err = ""
           THEN /\ Len(r.h) <= MaxNodes
                /\ heap' = r.h
                /\ decoded' = MkAST(PyList(r.vs))
                /\ last' = Call("from_dict", "", "", 0, 0, d)
           ELSE /\ heap' = heap
                /\ decoded' = NoAST
                /\ last' = Call("from_dict", r.err, "", 0, 0, d)
        /\ UNCHANGED <<ast, json, orig, cp, cmp, nops, pipeVars, nbVars>>

Next ==
    \/ NewBlock
    \/ NewInline
    \/ AddChildCall
    \/ SetStringCall
    \/ AddMetadataCall
    \/ NewAST
    \/ AddBlockCall
    \/ ToDictCall
    \/ FromDictCall

Spec == Init /\ [][Next]_vars

(***************************************************************************)
(* copy(): a copy of a Block owns copies of all the nodes below it.        *)
(***************************************************************************)
\* No instance below v has itself below it.
RECURSIVE Acyclic(_, _, _)
Acyclic(h, v, fuel) ==
    IF v.k = "list"
    THEN \A n \in 1..Len(v.items) : Acyclic(h, v.items[n], fuel)
    ELSE IF v.k # "ref" THEN TRUE
    ELSE fuel > 0 /\ Acyclic(h, h[v.id].children, fuel - 1)

RECURSIVE CopyValue(_, _)
RECURSIVE CopyEach(_, _)
CopyEach(h, vs) ==
    IF vs = <<>> THEN Built(h, <<>>)
    ELSE LET r == CopyValue(h, Head(vs))
             rest == CopyEach(r.h, Tail(vs))
         IN  Built(rest.h, r.vs \o rest.vs)

\* The copy of a value that has no cycle: the heap with the new instances
\* and the copy.
CopyValue(h, v) ==
    IF v.k = "list"
    THEN LET r == CopyEach(h, v.items) IN Built(r.h, <<PyList(r.vs)>>)
    ELSE IF v.k # "ref" THEN Built(h, <<v>>)
    ELSE LET r == CopyValue(h, h[v.id].children) IN
         Built(Append(r.h, [h[v.id] EXCEPT !.children = r.vs[1]]),
               <<PyRef(Len(r.h) + 1)>>)

\* cp = block.copy()
CopyCall ==
    \E i \in 1..Len(heap) :
        /\ last.ok
        /\ cp = PyNone
        /\ heap[i].cls = "Block"
        /\ Acyclic(heap, PyRef(i), Len(heap))
        /\ LET r == CopyValue(heap, PyRef(i)) IN
           /\ Len(r.h) <= MaxNodes
           /\ heap' = r.h
           /\ orig' = PyRef(i)
           /\ cp' = r.vs[1]
        /\ last' = Call("copy", "", "", i, 0, JNone)
        /\ UNCHANGED <<ast, json, decoded, cmp, nops, pipeVars, nbVars>>

NextCopy ==
    \/ CopyCall
    \/ AddChildCall

SpecCopy == Init /\ [][NextCopy]_vars

(***************************************************************************)
(* ae(a, b) on JSON values.                                                *)
(***************************************************************************)
AeAtoms == {JStr("a"), JStr("b")}

\* Dicts with keys among m and c and values in V.
AeDicts(V) ==
    {JDict(m \cup c) : m \in {{}} \cup {{<<"m", v>>} : v \in V},
                       c \in {{}} \cup {{<<"c", v>>} : v \in V}}

AeLists(V) == {JList(xs) : xs \in SeqsUpTo(V, MaxAeLen)}

AeInner == AeAtoms \cup AeDicts(AeAtoms) \cup AeLists(AeAtoms)

AeInputs ==
    AeInner \cup AeDicts(AeInner) \cup AeLists(AeAtoms \cup AeDicts(AeAtoms))

InitAe ==
    /\ heap = <<>>
    /\ ast = NoAST
    /\ json = JNone
    /\ decoded = NoAST
    /\ orig = PyNone
    /\ cp = PyNone
    /\ cmp \in [a : AeInputs, b : AeInputs, res : {"none"}]
    /\ last = NoCall
    /\ nops = 0
    /\ NoPipeline
    /\ NoNotebook

\* ae(cmp.a, cmp.b)
AeCall ==
    /\ cmp.res = "none"
    /\ cmp' = [cmp EXCEPT !.res = IF Ae(cmp.a, cmp.b) THEN "pass"
                                  ELSE "AssertionError"]
    /\ last' = Call("ae", IF Ae(cmp.a, cmp.b) THEN "" ELSE "AssertionError",
                    "", 0, 0, JNone)
    /\ UNCHANGED <<heap, ast, json, decoded, orig, cp, nops, pipeVars, nbVars>>

NextAe == AeCall

SpecAe == InitAe /\ [][NextAe]_vars

(***************************************************************************)
(* Podoc (podoc/core.py): the conversion pipeline.  The functions a client *)
(* registers are arbitrary; to see which were applied, in which order and  *)
(* on what, a function is modelled by its name and the contents it returns *)
(* by the sequence of the names of the functions applied so far.           *)
(***************************************************************************)
astVars == <<heap, ast, json, decoded, orig, cp, cmp, last, nops>>

\* No node, document or comparison is in use.
NoNodes ==
    /\ heap = <<>>
    /\ ast = NoAST
    /\ json = JNone
    /\ decoded = NoAST
    /\ orig = PyNone
    /\ cp = PyNone
    /\ cmp = [a |-> JNone, b |-> JNone, res |-> "none"]
    /\ last = NoCall
    /\ nops = 0

\* The functions a client registers.
PipeFuncs == {"f", "g"}

\* The contents given to convert_contents.
PipeInputs == {<<>>, <<"x">>}

\* func(contents)
ApplyFunc(func, contents) == Append(contents, func)

\* for p in funcs: contents = p(contents)
RECURSIVE ApplyEach(_, _)
ApplyEach(funcs, contents) ==
    IF funcs = <<>> THEN contents
    ELSE ApplyEach(Tail(funcs), ApplyFunc(Head(funcs), contents))

\* Podoc.preprocess
Preprocess(p, contents) == ApplyEach(p.preprocessors, contents)

\* Podoc.read
Read(p, contents) ==
    IF p.reader = None THEN contents ELSE ApplyFunc(p.reader, contents)

\* Podoc.filter
Filter(p, a) == ApplyEach(p.filters, a)

\* Podoc.write
Write(p, a) ==
    IF p.writer = None THEN a ELSE ApplyFunc(p.writer, a)

\* Podoc.postprocess
Postprocess(p, contents) == ApplyEach(p.postprocessors, contents)

ConvertContents_FilterFirst(p, contents) ==
    Postprocess(p, Write(p, Read(p, Filter(p, Preprocess(p, contents)))))

\* Podoc.convert_contents
ConvertContents(p, contents) ==
    Postprocess(p, Write(p, Filter(p, Read(p, Preprocess(p, contents)))))

\* The pipeline is configured first and used afterwards.
Configuring == ~converted.done

AddPreprocessor ==
    \E func \in PipeFuncs :
        /\ Configuring
        /\ Len(podoc.preprocessors) < MaxStage
        /\ podoc' = [podoc EXCEPT !.preprocessors = Append(@, func)]
        /\ UNCHANGED <<converted, astVars, nbVars>>

SetReader ==
    \E func \in PipeFuncs \cup {None} :
        /\ Configuring
        /\ podoc' = [podoc EXCEPT !.reader = func]
        /\ UNCHANGED <<converted, astVars, nbVars>>

AddFilter ==
    \E func \in PipeFuncs :
        /\ Configuring
        /\ Len(podoc.filters) < MaxStage
        /\ podoc' = [podoc EXCEPT !.filters = Append(@, func)]
        /\ UNCHANGED <<converted, astVars, nbVars>>

SetWriter ==
    \E func \in PipeFuncs \cup {None} :
        /\ Configuring
        /\ podoc' = [podoc EXCEPT !.writer = func]
        /\ UNCHANGED <<converted, astVars, nbVars>>

AddPostprocessor ==
    \E func \in PipeFuncs :
        /\ Configuring
        /\ Len(podoc.postprocessors) < MaxStage
        /\ podoc' = [podoc EXCEPT !.postprocessors = Append(@, func)]
        /\ UNCHANGED <<converted, astVars, nbVars>>

ConvertContentsCall ==
    \E contents \in PipeInputs :
        /\ Configuring
        /\ converted' = [done |-> TRUE, input |-> contents,
                         output |-> ConvertContents(podoc, contents)]
        /\ UNCHANGED <<podoc, astVars, nbVars>>

InitPipe == NoNodes /\ NoPipeline /\ NoNotebook

NextPipe ==
    \/ AddPreprocessor
    \/ SetReader
    \/ AddFilter
    \/ SetWriter
    \/ AddPostprocessor
    \/ ConvertContentsCall

SpecPipe == InitPipe /\ [][NextPipe]_vars

(***************************************************************************)
(* The notebook converter (podoc/notebook/_notebook.py): wrap_code_cells,  *)
(* NotebookWriter.write, NotebookReader.read, output_filename.  A block is *)
(* a record of its name, language, text, URL and children; a document is   *)
(* the sequence of its top-level blocks.                                   *)
(***************************************************************************)
Blk(name, lang, text, url) ==
    [name |-> name, lang |-> lang, text |-> text, url |-> url,
     children |-> <<>>]

CodeBlock(lang, text) == Blk("CodeBlock", lang, text, "")
Image(url) == Blk("Image", "", "", url)
Plain(text) == Blk("Plain", "", text, "")
Para(text) == Blk("Para", "", text, "")

\* The synthetic container of a code block and its outputs.
CodeCell(children) ==
    [name |-> "CodeCell", lang |-> "", text |-> "", url |-> "",
     children |-> children]

\* The cells of a notebook: the leading cells, two code cells and a cell
\* between them.
MaxCells == MaxLead + 3

\* The mime types of the outputs that are extracted, and their extensions.
KnownMimes == {"image/png", "image/jpeg"}

MimeExt(mime) == IF mime = "image/png" THEN "png" ELSE "jpeg"

OutputFilename_NoOutputIndex(mime, cell_index, output_index) ==
    "output_" \o ToString(cell_index) \o "." \o MimeExt(mime)

\* output_filename(mime_type, cell_index, output_index)
OutputFilename(mime, cell_index, output_index) ==
    "output_" \o ToString(cell_index) \o "_" \o ToString(output_index)
        \o "." \o MimeExt(mime)

\* The URLs that match the pattern of a resource filename.
ResourceNames ==
    {OutputFilename(mime, ci, oi) :
        mime \in KnownMimes, ci \in 0..(MaxCells - 1),
        oi \in 0..(MaxOutputs - 1)}

\* A block that represents an output of a code cell: an Image whose URL is
\* a resource filename, or a text block.
IsOutputBlock(b) ==
    \/ b.name = "Image" /\ b.url \in ResourceNames
    \/ b.name = "Plain"

\* One step of the scan of wrap_code_cells: acc.out is the sequence built
\* so far, acc.open says that its last element is a group still open.
WrapStep_JoinsCodeBlocks(acc, b) ==
    IF acc.open /\ (IsOutputBlock(b) \/ b.name = "CodeBlock")
    THEN LET n == Len(acc.out) IN
         [out |-> [acc.out EXCEPT ![n] =
                      CodeCell(Append(acc.out[n].children, b))],
          open |-> TRUE]
    ELSE IF b.name = "CodeBlock"
    THEN [out |-> Append(acc.out, CodeCell(<<b>>)), open |-> TRUE]
    ELSE [out |-> Append(acc.out, b), open |-> FALSE]

WrapStep_DropsClosing(acc, b) ==
    IF b.name = "CodeBlock"
    THEN [out |-> Append(acc.out, CodeCell(<<b>>)), open |-> TRUE]
    ELSE IF acc.open /\ IsOutputBlock(b)
    THEN LET n == Len(acc.out) IN
         [out |-> [acc.out EXCEPT ![n] =
                      CodeCell(Append(acc.out[n].children, b))],
          open |-> TRUE]
    ELSE [out |-> IF acc.open THEN acc.out ELSE Append(acc.out, b),
          open |-> FALSE]

WrapStep(acc, b) ==
    IF b.name = "CodeBlock"
    THEN [out |-> Append(acc.out, CodeCell(<<b>>)), open |-> TRUE]
    ELSE IF acc.open /\ IsOutputBlock(b)
    THEN LET n == Len(acc.out) IN
         [out |-> [acc.out EXCEPT ![n] =
                      CodeCell(Append(acc.out[n].children, b))],
          open |-> TRUE]
    ELSE [out |-> Append(acc.out, b), open |-> FALSE]

RECURSIVE WrapScan(_, _)
WrapScan(acc, blocks) ==
    IF blocks = <<>> THEN acc.out
    ELSE WrapScan(WrapStep(acc, Head(blocks)), Tail(blocks))

\* wrap_code_cells(ast): the top-level sequence with the code cells
\* wrapped.
WrapCodeCells(blocks) == WrapScan([out |-> <<>>, open |-> FALSE], blocks)

\* The blocks documents are made of.
BlockInputs ==
    {CodeBlock("python", "a"), CodeBlock("python", "b"),
     Image("output_0_0.png"), Image("output_0_1.png"),
     Image("http://x/y.png"), Plain("t"), Para("p")}

DocInputs == SeqsUpTo(BlockInputs, MaxBlocks)

\* wrap_code_cells(nbdoc)
WrapCall ==
    /\ ~wrapped.ok
    /\ ~notebook.ok
    /\ notebook.err = ""
    /\ wrapped' = [ok |-> TRUE, err |-> "", v |-> WrapCodeCells(nbdoc)]
    /\ UNCHANGED <<nbdoc, nbres, notebook, readout, astVars, pipeVars>>

(***************************************************************************)
(* Resources: a mapping from filename to bytes, as its set of              *)
(* <<filename, bytes>> items.  Bytes are sequences of numbers 0..3; the    *)
(* text encoding of bytes (base64 in the program) writes two binary digits *)
(* per byte.                                                               *)
(***************************************************************************)
ResKeys(r) == {p[1] : p \in r}
ResGet(r, key) == (CHOOSE p \in r : p[1] = key)[2]

\* resources[key] = bytes
ResSet(r, key, bytes) ==
    {p \in r : p[1] # key} \cup {<<key, bytes>>}

RECURSIVE B64Encode(_)
B64Encode(bytes) ==
    IF bytes = <<>> THEN <<>>
    ELSE <<Head(bytes) \div 2, Head(bytes) % 2>> \o B64Encode(Tail(bytes))

RECURSIVE B64Decode(_)
B64Decode(digits) ==
    IF Len(digits) < 2 THEN <<>>
    ELSE <<2 * digits[1] + digits[2]>> \o B64Decode(Tail(Tail(digits)))

(***************************************************************************)
(* Notebooks: a sequence of cells; a cell has a type, a source and, when   *)
(* it is a code cell, outputs.  The Markdown writer and reader are         *)
(* collaborators: the source of a markdown cell is modelled as one line    *)
(* per block, a line saying whether it is text or an image.                *)
(***************************************************************************)
Line(kind, s) == [kind |-> kind, s |-> s]

Cell(cell_type, source, outputs) ==
    [cell_type |-> cell_type, source |-> source, outputs |-> outputs]

Output(mime, text, data) == [mime |-> mime, text |-> text, data |-> data]

\* The Markdown writer, for one block.
MdWrite(b) ==
    IF b.name = "Image" THEN Line("image", b.url) ELSE Line("text", b.text)

\* The Markdown reader, for one line.
MdRead(l) == IF l.kind = "image" THEN Image(l.s) ELSE Para(l.s)

\* The mime type of a resource filename.
MimeOfName(url) ==
    CHOOSE mime \in KnownMimes :
        \E ci \in 0..(MaxCells - 1), oi \in 0..(MaxOutputs - 1) :
            url = OutputFilename(mime, ci, oi)

WriteOutput_NoEncode(b, resources) ==
    IF b.name = "Image"
    THEN IF b.url \in ResKeys(resources)
         THEN [err |-> "",
               v |-> Output(MimeOfName(b.url), "", ResGet(resources, b.url))]
         ELSE [err |-> "ResourceNotFoundError: " \o b.url,
               v |-> Output("", "", <<>>)]
    ELSE [err |-> "", v |-> Output("text/plain", b.text, <<>>)]

\* The output a child of a code cell, after the first, is written as; an
\* Image whose resource is missing raises.
WriteOutput(b, resources) ==
    IF b.name = "Image"
    THEN IF b.url \in ResKeys(resources)
         THEN [err |-> "",
               v |-> Output(MimeOfName(b.url), "",
                            B64Encode(ResGet(resources, b.url)))]
         ELSE [err |-> "ResourceNotFoundError: " \o b.url,
               v |-> Output("", "", <<>>)]
    ELSE [err |-> "", v |-> Output("text/plain", b.text, <<>>)]

RECURSIVE WriteOutputs(_, _)
WriteOutputs(bs, resources) ==
    IF bs = <<>> THEN [err |-> "", v |-> <<>>]
    ELSE LET o == WriteOutput(Head(bs), resources) IN
         IF o.err # "" THEN [err |-> o.err, v |-> <<>>]
         ELSE LET rest == WriteOutputs(Tail(bs), resources) IN
              IF rest.err # "" THEN rest
              ELSE [err |-> "", v |-> <<o.v>> \o rest.v]

\* One element of the wrapped sequence written: a group becomes a code
\* cell, a block outside a group joins the markdown cell of its run.
WriteItem(cells, item, resources) ==
    IF item.name = "CodeCell"
    THEN LET outs == WriteOutputs(Tail(item.children), resources) IN
         IF outs.err # "" THEN [err |-> outs.err, v |-> cells]
         ELSE [err |-> "",
               v |-> Append(cells,
                        Cell("code", <<Line("code", item.children[1].text)>>,
                             outs.v))]
    ELSE LET n == Len(cells) IN
         IF n > 0 /\ cells[n].cell_type = "markdown"
         THEN [err |-> "",
               v |-> [cells EXCEPT ![n].source = Append(@, MdWrite(item))]]
         ELSE [err |-> "",
               v |-> Append(cells, Cell("markdown", <<MdWrite(item)>>, <<>>))]

RECURSIVE WriteItems(_, _, _)
WriteItems(cells, items, resources) ==
    IF items = <<>> THEN [err |-> "", v |-> cells]
    ELSE LET r == WriteItem(cells, Head(items), resources) IN
         IF r.err # "" THEN r
         ELSE WriteItems(r.v, Tail(items), resources)

\* NotebookWriter.write(document, resources)
WriteNotebook(blocks, resources) ==
    LET r == WriteItems(<<>>, WrapCodeCells(blocks), resources) IN
    [ok |-> r.err = "", err |-> r.err,
     v |-> IF r.err = "" THEN r.v ELSE <<>>]

\* The language of the code cells of a notebook.
NotebookLang == "python"

\* What the reader has built so far.
ReadAcc(doc, resources) == [doc |-> doc, resources |-> resources]

\* One output of code cell ci read: an image output becomes an Image block
\* named after its position and its bytes become a resource; a text output
\* becomes a text block; an output of another mime type is skipped.
ReadOutput(acc, o, ci, oi) ==
    IF o.mime \in KnownMimes
    THEN LET key == OutputFilename(o.mime, ci, oi) IN
         ReadAcc(Append(acc.doc, Image(key)),
                 ResSet(acc.resources, key, B64Decode(o.data)))
    ELSE IF o.mime = "text/plain"
    THEN ReadAcc(Append(acc.doc, Plain(o.text)), acc.resources)
    ELSE acc

RECURSIVE ReadOutputs(_, _, _, _)
ReadOutputs(acc, outputs, ci, oi) ==
    IF oi >= Len(outputs) THEN acc
    ELSE ReadOutputs(ReadOutput(acc, outputs[oi + 1], ci, oi),
                     outputs, ci, oi + 1)

RECURSIVE MdReadAll(_)
MdReadAll(lines) ==
    IF lines = <<>> THEN <<>>
    ELSE <<MdRead(Head(lines))>> \o MdReadAll(Tail(lines))

\* Cell ci read.
ReadCell(acc, c, ci) ==
    IF c.cell_type = "markdown"
    THEN ReadAcc(acc.doc \o MdReadAll(c.source), acc.resources)
    ELSE IF c.cell_type = "raw"
    THEN ReadAcc(Append(acc.doc, Blk("RawBlock", "", c.source[1].s, "")),
                 acc.resources)
    ELSE ReadOutputs(
            ReadAcc(Append(acc.doc, CodeBlock(NotebookLang, c.source[1].s)),
                    acc.resources),
            c.outputs, ci, 0)

RECURSIVE ReadCells(_, _, _)
ReadCells(acc, cells, ci) ==
    IF ci >= Len(cells) THEN acc
    ELSE ReadCells(ReadCell(acc, cells[ci + 1], ci), cells, ci + 1)

\* NotebookReader.read(notebook): the document and the resources.
ReadNotebook(cells) == ReadCells(ReadAcc(<<>>, {}), cells, 0)

\* The bytes of the resources.
BytesA == <<1, 2>>
BytesB == <<3>>

\* The resources given to the writer.
ResInputs ==
    {{},
     {<<"output_0_0.png", BytesA>>},
     {<<"output_0_0.png", BytesB>>},
     {<<"output_0_0.png", BytesA>>, <<"output_0_1.png", BytesB>>}}

\* The outputs of the code cells given to the reader.
OutputInputs ==
    {Output("image/png", "", B64Encode(BytesA)),
     Output("image/jpeg", "", B64Encode(BytesB)),
     Output("text/plain", "t", <<>>),
     Output("application/json", "", <<>>)}

\* The cells given to the reader.
CodeCellInputs ==
    {Cell("code", <<Line("code", "a")>>, outs) :
        outs \in SeqsUpTo(OutputInputs, MaxOutputs)}

OtherCellInputs ==
    {Cell("markdown", <<Line("text", "p")>>, <<>>),
     Cell("raw", <<Line("raw", "r")>>, <<>>)}

\* The cells before the first code cell: markdown cells, the last of them
\* possibly a raw cell.
LeadInputs ==
    {[i \in 1..n |->
        CHOOSE c \in OtherCellInputs :
            c.cell_type = (IF i = n /\ raw THEN "raw" ELSE "markdown")] :
        n \in 0..MaxLead, raw \in BOOLEAN}

\* A notebook: the leading cells, then no, one or two code cells, the two
\* possibly with a markdown cell between them.
NotebookInputs ==
    {lead \o first \o mid \o second :
        lead \in LeadInputs,
        first \in {<<>>} \cup {<<c>> : c \in CodeCellInputs},
        mid \in {<<>>} \cup
                  {<<c>> : c \in {d \in OtherCellInputs :
                                     d.cell_type = "markdown"}},
        second \in {<<>>} \cup {<<c>> : c \in CodeCellInputs}}

\* NotebookWriter().write(nbdoc, resources=nbres)
WriteCall ==
    /\ ~notebook.ok
    /\ notebook.err = ""
    /\ notebook' = WriteNotebook(nbdoc, nbres)
    /\ wrapped' = [ok |-> TRUE, err |-> "", v |-> WrapCodeCells(nbdoc)]
    /\ UNCHANGED <<nbdoc, nbres, readout, astVars, pipeVars>>

\* NotebookReader().read(notebook)
ReadCall ==
    /\ notebook.ok
    /\ ~readout.done
    /\ LET r == ReadNotebook(notebook.v) IN
       readout' = [done |-> TRUE, err |-> "", doc |-> r.doc,
                   resources |-> r.resources]
    /\ UNCHANGED <<nbdoc, nbres, wrapped, notebook, astVars, pipeVars>>

\* A document is written and the notebook read back.
InitNb ==
    /\ NoNodes
    /\ NoPipeline
    /\ nbdoc \in DocInputs
    /\ nbres \in ResInputs
    /\ wrapped = NbNone
    /\ notebook = NbNone
    /\ readout = NotRead

NextNb ==
    \/ WrapCall
    \/ WriteCall
    \/ ReadCall

SpecNb == InitNb /\ [][NextNb]_vars

\* A notebook is read.
InitRead ==
    /\ NoNodes
    /\ NoPipeline
    /\ nbdoc = <<>>
    /\ nbres = {}
    /\ wrapped = NbNone
    /\ notebook \in {[ok |-> TRUE, err |-> "", v |-> cells] :
                        cells \in NotebookInputs}
    /\ readout = NotRead

NextRead == ReadCall

SpecRead == InitRead /\ [][NextRead]_vars

(***************************************************************************)
(* Properties.                                                             *)
(***************************************************************************)
Last(xs) == xs[Len(xs)]

\* The AST instances a script holds.
Documents == {a \in {ast, decoded} : a.exists}

\* The elements of a node's children when they are a list.
Kids(h, i) == IF h[i].children.k = "list" THEN h[i].children.items ELSE <<>>

RefIds(xs) == {xs[n].id : n \in {m \in 1..Len(xs) : xs[m].k = "ref"}}

\* The ids of the nodes reachable from the ids S.
RECURSIVE ReachR(_, _, _)
ReachR(h, S, n) ==
    IF n = 0 THEN S
    ELSE ReachR(h, S \cup UNION {RefIds(Kids(h, i)) : i \in S}, n - 1)

Reach(h, a) == ReachR(h, RefIds(a.blocks.items), Len(h))

\* I1 and I2 for node i of heap h.
ShapeOk(h, i) ==
    LET c == h[i].children IN
    IF h[i].cls = "Block"
    THEN /\ c.k = "list"
         /\ \A n \in 1..Len(c.items) :
               /\ c.items[n].k = "ref"
               /\ h[c.items[n].id].cls \in {"Block", "Inline"}
    ELSE \/ c.k = "str"
         \/ /\ c.k = "list"
            /\ \A n \in 1..Len(c.items) :
                  /\ c.items[n].k = "ref"
                  /\ h[c.items[n].id].cls = "Inline"

\* C1: decoding the encoding of a document gives a document structurally
\* equal to it: whenever from_dict was handed what to_dict returns for the
\* AST under construction, it succeeded and the AST it returned equals that
\* AST (same blocks, names, children in order, metadata).
C1_RoundTrip ==
    (/\ last.op = "from_dict"
     /\ ast.exists
     /\ last.d = ASTToDict(heap, ast))
        => /\ last.ok
           /\ decoded.exists
           /\ ASTData(heap, decoded) = ASTData(heap, ast)

\* A round trip of a document whose first block holds an Inline with a
\* literal string, an Inline with an empty child list, and metadata or a
\* second child.
C1_Witness ==
    /\ last.op = "from_dict"
    /\ last.ok
    /\ ast.exists
    /\ last.d = ASTToDict(heap, ast)
    /\ Len(ast.blocks.items) >= 1
    /\ LET b == ast.blocks.items[1] IN
       /\ IsInstance(heap, b, {"Block"})
       /\ \E n, m \in 1..Len(Kids(heap, b.id)) :
             /\ heap[Kids(heap, b.id)[n].id].children = PyStr("a")
             /\ heap[Kids(heap, b.id)[m].id].children = PyList(<<>>)
       /\ decoded.blocks.items[1] # b

\* A node of a JSON document whose type tag is in neither enumeration.
IsUnknownNode(j) ==
    /\ j.k = "dict"
    /\ DictHas(j, "t")
    /\ ~NameIn(DictGet(j, "t"), PANDOC_BLOCK_NAMES \cup PANDOC_INLINE_NAMES)

JKids(j) ==
    IF j.k = "dict" /\ DictHas(j, "c") /\ DictGet(j, "c").k = "list"
    THEN DictGet(j, "c").l ELSE <<>>

RECURSIVE HasUnknown(_)
HasUnknown(js) ==
    \E n \in 1..Len(js) : IsUnknownNode(js[n]) \/ HasUnknown(JKids(js[n]))

\* The nodes js with every unknown node replaced by its own children.
RECURSIVE SpliceUnknown(_)
SpliceUnknown(js) ==
    IF js = <<>> THEN <<>>
    ELSE LET j == Head(js)
             kids == SpliceUnknown(JKids(j))
             kept == IF j.k = "dict" /\ DictHas(j, "c")
                        /\ DictGet(j, "c").k = "list"
                     THEN JDict({p \in j.d : p[1] # "c"}
                                  \cup {<<"c", JList(kids)>>})
                     ELSE j
         IN  (IF IsUnknownNode(j) THEN kids ELSE <<kept>>)
                \o SpliceUnknown(Tail(js))

\* C2: decode does not fail on a node of unknown type tag: the node is
\* absent from the result and its children stand in its place, in order.
C2_UnknownSpliced ==
    (/\ last.op = "from_dict"
     /\ last.d.k = "list"
     /\ Len(last.d.l) = 2
     /\ last.d.l[2].k = "list"
     /\ HasUnknown(last.d.l[2].l))
        => /\ last.ok
           /\ LET want == ASTFromDict(<<>>, JList(<<last.d.l[1],
                              JList(SpliceUnknown(last.d.l[2].l))>>))
              IN  ASTData(heap, decoded)
                     = ASTData(want.h, MkAST(PyList(want.vs)))

\* C3: every Block's children are a list of Block or Inline nodes, every
\* Inline's children are a list of Inline nodes or a string.
C3_ShapeInvariant == \A i \in 1..Len(heap) : ShapeOk(heap, i)

\* C4: a constructor given a kind outside the enumeration of its class (or
\* no kind) raises at once and returns no instance, so every instance has a
\* kind of its class's enumeration.
C4_KindValidation ==
    /\ \A i \in 1..Len(heap) :
          heap[i].name \in (IF heap[i].cls = "Block" THEN PANDOC_BLOCK_NAMES
                            ELSE PANDOC_INLINE_NAMES)
    /\ (last.op = "Block" /\ last.name \notin PANDOC_BLOCK_NAMES)
          => ~last.ok /\ last.made = 0
    /\ (last.op = "Inline" /\ last.name \notin PANDOC_INLINE_NAMES)
          => ~last.ok /\ last.made = 0
    /\ (last.op \in {"Block", "Inline"} /\ last.ok)
          => /\ last.made = Len(heap)
             /\ heap[last.made].name = last.name
             /\ heap[last.made].cls = last.op

\* A Block constructor was given an Inline kind and raised.
C4_Witness ==
    /\ last.op = "Block"
    /\ last.name = "Str"
    /\ ~last.ok
    /\ last.err = "AssertionError"
    /\ Len(heap) > 0

\* C5: every element of a document's top-level sequence is a Block.
C5_TopLevelBlocks ==
    \A a \in Documents :
        /\ a.blocks.k = "list"
        /\ \A n \in 1..Len(a.blocks.items) :
              /\ a.blocks.items[n].k = "ref"
              /\ heap[a.blocks.items[n].id].cls = "Block"

\* The places (0 for the top-level sequence, else the parent's id, and the
\* position) where node j is referenced in document a.
Places(h, a, j) ==
    {<<0, n>> : n \in {m \in 1..Len(a.blocks.items) :
                          a.blocks.items[m] = PyRef(j)}}
      \cup UNION {{<<i, n>> : n \in {m \in 1..Len(Kids(h, i)) :
                                       Kids(h, i)[m] = PyRef(j)}} :
                     i \in Reach(h, a)}

\* C6: the nodes reachable from a document form a tree: no node is a child
\* twice, and no node is its own ancestor.
C6_Tree ==
    \A a \in Documents :
        /\ \A j \in Reach(heap, a) : Cardinality(Places(heap, a, j)) <= 1
        /\ Acyclic(heap, a.blocks, Len(heap))

\* The number of elements of a JSON value.
Size(j) ==
    IF j.k = "list" THEN Len(j.l)
    ELSE IF j.k = "dict" THEN Cardinality(DictKeys(j))
    ELSE IF j.s = "" THEN 0 ELSE 1

\* C7: from_dict raises, and returns no AST, when the outer value does not
\* have exactly two elements.
C7_OuterShape ==
    (last.op = "from_dict" /\ Size(last.d) # 2)
        => ~last.ok /\ ~decoded.exists

\* from_dict was handed three elements, after a document was built.
C7_Witness ==
    /\ last.op = "from_dict"
    /\ last.d.k = "list"
    /\ Len(last.d.l) = 3
    /\ ~last.ok
    /\ ast.exists

\* Two values differ at most in what stands under a key m, at any depth.
RECURSIVE SameExceptMeta(_, _)
SameExceptMeta(a, b) ==
    /\ a.k = b.k
    /\ a.k = "str" => a.s = b.s
    /\ a.k = "list" =>
          /\ Len(a.l) = Len(b.l)
          /\ \A n \in 1..Len(a.l) : SameExceptMeta(a.l[n], b.l[n])
    /\ a.k = "dict" =>
          /\ DictKeys(a) \ {"m"} = DictKeys(b) \ {"m"}
          /\ \A key \in DictKeys(a) \ {"m"} :
                SameExceptMeta(DictGet(a, key), DictGet(b, key))

DataOf(h, v) == PyData(h, v, Len(h))

\* The data of a node with one more child at the end.
DataWithChild(D, c) ==
    JDict({p \in D.d : p[1] # "children"}
            \cup {<<"children", JList(Append(DictGet(D, "children").l, c))>>})

\* Node i and the nodes below it.
Below(h, i) == ReachR(h, {i}, Len(h))

ValidDocument(h, a) ==
    /\ a.blocks.k = "list"
    /\ \A n \in 1..Len(a.blocks.items) :
          /\ a.blocks.items[n].k = "ref"
          /\ h[a.blocks.items[n].id].cls = "Block"
    /\ \A i \in Reach(h, a) : ShapeOk(h, i)
    /\ Acyclic(h, a.blocks, Len(h))

\* JSON value j is the encoding of node v: an object with the type tag,
\* the metadata (Block only) and the encoded children or the string.
RECURSIVE EncodedAs(_, _, _)
EncodedAs(h, v, j) ==
    LET n == h[v.id] IN
    /\ j.k = "dict"
    /\ DictKeys(j) = (IF n.cls = "Block" THEN {"t", "m", "c"} ELSE {"t", "c"})
    /\ DictGet(j, "t") = JStr(n.name)
    /\ n.cls = "Block" => DictGet(j, "m") = n.meta /\ n.meta.k = "dict"
    /\ IF n.children.k = "str"
       THEN DictGet(j, "c") = JStr(n.children.s)
       ELSE /\ DictGet(j, "c").k = "list"
            /\ Len(DictGet(j, "c").l) = Len(n.children.items)
            /\ \A m \in 1..Len(n.children.items) :
                  EncodedAs(h, n.children.items[m], DictGet(j, "c").l[m])

\* C10: to_dict succeeds on every structurally valid document and returns
\* two elements: an object with an empty metadata map, and the encodings of
\* the top-level blocks, one each and in order.
C10_EncodeShape ==
    (last.op = "to_dict" /\ ValidDocument(heap, ast))
        => /\ last.ok
           /\ json.k = "list"
           /\ Len(json.l) = 2
           /\ json.l[1] = JDict({<<"unMeta", JDict({})>>})
           /\ json.l[2].k = "list"
           /\ Len(json.l[2].l) = Len(ast.blocks.items)
           /\ \A n \in 1..Len(ast.blocks.items) :
                 EncodedAs(heap, ast.blocks.items[n], json.l[2].l[n])

\* to_dict encoded two different blocks, one of them with a child.
C10_Witness ==
    /\ last.op = "to_dict"
    /\ last.ok
    /\ ValidDocument(heap, ast)
    /\ Len(ast.blocks.items) = 2
    /\ json.l[2].l[1] # json.l[2].l[2]
    /\ \E n \in 1..2 : Len(Kids(heap, ast.blocks.items[n].id)) > 0

\* The names of the optional stage: none when it is not set.
StageOf(func) == IF func = None THEN <<>> ELSE <<func>>

\* C15: convert_contents applies the preprocessors, the reader, the
\* filters, the writer and the postprocessors, in this order, each list in
\* registration order and each function once, each on the result of the
\* one before; a reader or writer that is not set passes its input on.
C15_StageOrder ==
    converted.done =>
        converted.output =
            converted.input \o podoc.preprocessors \o StageOf(podoc.reader)
                \o podoc.filters \o StageOf(podoc.writer)
                \o podoc.postprocessors

\* A conversion through two different functions in every list, a reader
\* and a different writer.
C15_Witness ==
    /\ converted.done
    /\ converted.input # <<>>
    /\ podoc.reader \notin {None, podoc.writer}
    /\ podoc.writer # None
    /\ \A l \in {podoc.preprocessors, podoc.filters, podoc.postprocessors} :
          Len(l) = 2 /\ l[1] # l[2]
    /\ podoc.filters # podoc.preprocessors

\* The positions of the groups in a wrapped sequence.
GroupsOf(items) == {k \in 1..Len(items) : items[k].name = "CodeCell"}

IsCodeBlock(b) == b.name = "CodeBlock"

RECURSIVE Unwrapped(_)
Unwrapped(items) ==
    IF items = <<>> THEN <<>>
    ELSE (IF Head(items).name = "CodeCell" THEN Head(items).children
          ELSE <<Head(items)>>) \o Unwrapped(Tail(items))

\* The first block of every group and of every run of blocks outside the
\* groups, in the order of the wrapped sequence.
RECURSIVE FirstBlocks(_, _)
FirstBlocks(items, inRun) ==
    IF items = <<>> THEN <<>>
    ELSE IF Head(items).name = "CodeCell"
    THEN <<Head(items).children[1]>> \o FirstBlocks(Tail(items), FALSE)
    ELSE (IF inRun THEN <<>> ELSE <<Head(items)>>)
            \o FirstBlocks(Tail(items), TRUE)

\* The number of blocks a cell was written from.
CellSize(c) ==
    IF c.cell_type = "code" THEN 1 + Len(c.outputs) ELSE Len(c.source)

RECURSIVE SumSizes(_)
SumSizes(cells) ==
    IF cells = <<>> THEN 0 ELSE CellSize(Head(cells)) + SumSizes(Tail(cells))

\* C12: the blocks of the groups and of the runs outside them, taken in
\* output order, are the document's top-level blocks: none dropped,
\* duplicated or reordered; the notebook written has one cell per group
\* and per run, in the order of their first blocks, and the cells hold as
\* many parts as the document has blocks.
C12_OrderPreserved ==
    /\ wrapped.ok => Unwrapped(wrapped.v) = nbdoc
    /\ notebook.ok =>
          LET first == FirstBlocks(WrapCodeCells(nbdoc), FALSE) IN
          /\ Len(notebook.v) = Len(first)
          /\ SumSizes(notebook.v) = Len(nbdoc)
          /\ \A k \in 1..Len(first) :
                IF IsCodeBlock(first[k])
                THEN /\ notebook.v[k].cell_type = "code"
                     /\ notebook.v[k].source = <<Line("code", first[k].text)>>
                ELSE /\ notebook.v[k].cell_type = "markdown"
                     /\ notebook.v[k].source[1] = MdWrite(first[k])

\* A notebook was written from prose, a code block with an output, and
\* prose again.
C12_Witness ==
    /\ notebook.ok
    /\ Len(nbdoc) = 4
    /\ Len(notebook.v) = 3
    /\ notebook.v[1].cell_type = "markdown"
    /\ notebook.v[2].cell_type = "code"
    /\ Len(notebook.v[2].outputs) = 1
    /\ notebook.v[3].cell_type = "markdown"
    /\ Unwrapped(wrapped.v) = nbdoc
    /\ wrapped.v # nbdoc

\* The decimal numerals of the indices.
Numeral(n) == <<"0", "1", "2", "3", "4", "5", "6", "7", "8", "9">>[n + 1]

\* The filename the convention gives: output_<cell>_<output>.<ext>.
ConventionName(mime, ci, oi) ==
    "output_" \o Numeral(ci) \o "_" \o Numeral(oi) \o "."
        \o (IF mime = "image/png" THEN "png" ELSE "jpeg")

\* The zero-based positions <<cell, output>> of the outputs of a notebook
\* that are extracted.
Extracted(cells) ==
    {<<ci, oi>> \in (0..(Len(cells) - 1)) \X (0..(MaxOutputs + 1)) :
        /\ cells[ci + 1].cell_type = "code"
        /\ oi < Len(cells[ci + 1].outputs)
        /\ cells[ci + 1].outputs[oi + 1].mime \in KnownMimes}

\* C13: a resource is kept under output_<cell index>_<output index>.<ext>,
\* zero-based, the extension being that of the mime type (image/png, cell
\* 4, output 1: output_4_1.png); the outputs extracted in one read get
\* different keys, so the resources hold the bytes of each of them.
C13_ResourceNames ==
    readout.done =>
        LET cells == notebook.v
            keys == ResKeys(readout.resources)
        IN  /\ Cardinality(keys) = Cardinality(Extracted(cells))
            /\ Cardinality(readout.resources) = Cardinality(keys)
            /\ \A e \in Extracted(cells) :
                  LET o == cells[e[1] + 1].outputs[e[2] + 1]
                      key == ConventionName(o.mime, e[1], e[2])
                  IN  /\ key \in keys
                      /\ ResGet(readout.resources, key) = B64Decode(o.data)
                      /\ (o.mime = "image/png" /\ e = <<4, 1>>)
                            => key = "output_4_1.png"

\* A notebook was read whose cell 4 has a png as output 1, and four
\* resources were extracted from two cells.
C13_Witness ==
    /\ readout.done
    /\ nbdoc = <<>>
    /\ "output_4_1.png" \in ResKeys(readout.resources)
    /\ Cardinality(ResKeys(readout.resources)) = 4
    /\ Cardinality({e[1] : e \in Extracted(notebook.v)}) = 2

\* The document of the round trip: a python CodeBlock and an Image that
\* refers to output_0_0.png, the only resource given.
RoundTripCase ==
    /\ Len(nbdoc) = 2
    /\ nbdoc[1] = CodeBlock("python", nbdoc[1].text)
    /\ nbdoc[2] = Image("output_0_0.png")
    /\ ResKeys(nbres) = {"output_0_0.png"}

\* C14: for a python CodeBlock followed by an Image that refers to
\* output_0_0.png, that resource given, write succeeds and read of the
\* notebook written returns the same document and the same resources.
C14_NotebookRoundTrip ==
    RoundTripCase =>
        /\ notebook.err = ""
        /\ readout.done =>
              /\ readout.doc = nbdoc
              /\ readout.resources = nbres

\* The round trip was made, through one code cell with one image output.
C14_Witness ==
    /\ RoundTripCase
    /\ readout.done
    /\ Len(notebook.v) = 1
    /\ Len(notebook.v[1].outputs) = 1
    /\ notebook.v[1].outputs[1].data # ResGet(nbres, "output_0_0.png")
    /\ ResGet(readout.resources, "output_0_0.png") = BytesA

=============================================================================
